---- MODULE Spec2Model ----
(***************************************************************************)
(* Model of django-mailer's queue core (src/mailer/models.py): the Message *)
(* queue, the DontSendEntry suppression list, the MessageLog store, the    *)
(* payload codec and the message factory, with the purge_deferred command. *)
(* Rows are the database tables; obj[r] is the in-memory model instance    *)
(* held by a run r (a delivery run or any other caller of the ORM).        *)
(***************************************************************************)
EXTENDS Integers, Sequences, FiniteSets, TLC

(* ------------------------------ bounds --------------------------------- *)
\* largest primary key the Message table hands out
MaxMsgs == 2
\* largest primary key the MessageLog table hands out
MaxLogs == 2
\* last instant of the clock
MaxTime == 1
\* retry_deferred is not called once it would raise a retry_count above this
RetryCap == 1
\* longest recipient list given to filter_recipient_list on its own
MaxRecipients == 2

(* ----------------------------- constants ------------------------------- *)
PRIORITY_HIGH == 1
PRIORITY_MEDIUM == 2
PRIORITY_LOW == 3
PRIORITY_DEFERRED == 4

PRIORITIES == {PRIORITY_HIGH, PRIORITY_MEDIUM, PRIORITY_LOW, PRIORITY_DEFERRED}

RESULT_SUCCESS == "1"
RESULT_DONT_SEND == "2"
RESULT_FAILURE == "3"

RESULT_CODES == {RESULT_SUCCESS, RESULT_DONT_SEND, RESULT_FAILURE}

\* A nullable value is <<>> (Python's None, SQL NULL) or <<v>>.
None == <<>>
Some(v) == <<v>>
IsNone(o) == o = <<>>
Val(o) == o[1]

\* the callers that hold a Message instance: an application that queues
\* mail, and a delivery run
App == "app"
Run == "run"
Runs == {App, Run}

(* ------------------------------ strings -------------------------------- *)
\* A str is a sequence of one-character strings, so that str.lower() and the
\* database's case-insensitive comparison are computed, not assumed.
LowerChar(c) ==
    CASE c = "A" -> "a" [] c = "B" -> "b" [] c = "D" -> "d" [] c = "I" -> "i"
      [] c = "M" -> "m" [] c = "X" -> "x"
      [] OTHER -> c

lower(s) == [i \in 1..Len(s) |-> LowerChar(s[i])]

\* the header name get_message_id looks for
MessageIdKey == <<"m", "e", "s", "s", "a", "g", "e", "-", "i", "d">>

(* --------------------------- sample inputs ----------------------------- *)
\* addresses: two spellings of one mailbox, and two other mailboxes
AddrA == <<"a", "@", "x">>
AddrAUp == <<"A", "@", "X">>
AddrB == <<"b", "@", "x">>
AddrBMixed == <<"B", "@", "x">>
Addresses == {AddrA, AddrAUp, AddrB, AddrBMixed}

\* header dictionaries (insertion-ordered key/value pairs)
HdrMixed == <<"M", "e", "s", "s", "a", "g", "e", "-", "I", "D">>
HdrOther == <<"X", "-", "a">>
MsgIdValue == <<"<", "a", "@", "x", ">">>
HeaderChoices ==
    { None,
      Some(<< <<HdrMixed, MsgIdValue>> >>),
      Some(<< <<HdrOther, AddrA>>, <<MessageIdKey, MsgIdValue>> >>) }

(* --------------------------- payload codec ----------------------------- *)
\* message_data of a Message built without an email: TextField's default ""
EmptyText == [enc |-> "empty"]

\* email_to_db: base64 text of the pickled email
email_to_db(email) == [enc |-> "b64pickle", email |-> email]

\* message_data written by the versions that stored pickle.dumps(email)
legacy_to_db(email) == [enc |-> "pickle", email |-> email]

\* a text with a character outside ASCII
NonAsciiText == [enc |-> "nonascii"]

\* an ASCII text that is neither of the two encodings of an email: primary is
\* the exception pickle.loads(base64_decode(data)) raises on it, fallback the
\* exception pickle.loads(data) raises on it
MalformedText(primary, fallback) ==
    [enc |-> "text", primary |-> primary, fallback |-> fallback]

\* "garbage": base64 rejects the padding, pickle rejects the bytes
GarbageText == MalformedText("binascii.Error", "UnpicklingError")
\* a line break only: base64 decodes it to b"", pickle runs out of input
BlankLineText == MalformedText("EOFError", "UnpicklingError")
\* base64 of a pickle cut short: the pickle is truncated, and read as a
\* pickle itself the text is not a number where pickle wants one
TruncatedText == MalformedText("UnpicklingError", "ValueError")

MalformedTexts == {NonAsciiText, GarbageText, BlankLineText, TruncatedText}

\* what a call does: it returns val, or raises exc (exc = "" when it returns)
Returns(v) == [exc |-> "", val |-> v]
Raises(e) == [exc |-> e, val |-> None]

\* data.encode("ascii")
encode_ascii(data) ==
    IF data.enc = "nonascii" THEN Raises("UnicodeEncodeError") ELSE Returns(Some(data))

\* pickle.loads(base64_decode(data))
primary_loads(data) ==
    CASE data.enc = "b64pickle" -> Returns(Some(data.email))
      [] data.enc = "pickle" -> Raises("binascii.Error")
      [] OTHER -> Raises(data.primary)

\* pickle.loads(data)
fallback_loads(data) ==
    CASE data.enc = "pickle" -> Returns(Some(data.email))
      [] data.enc = "b64pickle" -> Raises("UnpicklingError")
      [] OTHER -> Raises(data.fallback)

\* the exceptions the two except clauses of db_to_email name
PrimaryCaught == {"TypeError", "UnpicklingError", "binascii.Error", "AttributeError"}
FallbackCaught == {"TypeError", "UnpicklingError", "AttributeError"}

\* db_to_email as a call: None for "", else the email of the primary
\* decoding, else that of the fallback decoding, None when the fallback
\* raises one of the exceptions caught; any other exception propagates
try_db_to_email(data) ==
    IF data = EmptyText THEN Returns(None)
    ELSE IF encode_ascii(data).exc # "" THEN encode_ascii(data)
    ELSE LET p == primary_loads(data)
             f == fallback_loads(data)
         IN  IF p.exc = "" \/ p.exc \notin PrimaryCaught THEN p
             ELSE IF f.exc = "" \/ f.exc \notin FallbackCaught THEN f
             ELSE Returns(None)

\* db_to_email: the value it returns
db_to_email(data) == try_db_to_email(data).val

\* django.core.mail.EmailMessage(subject, to, bcc, headers): a missing list
\* becomes [], missing headers become {}
EmailMessage(subject, to, bcc, headers) ==
    [ subject |-> subject,
      to |-> IF IsNone(to) THEN <<>> ELSE Val(to),
      bcc |-> IF IsNone(bcc) THEN <<>> ELSE Val(bcc),
      extra_headers |-> IF IsNone(headers) THEN <<>> ELSE Val(headers) ]

\* get_message_id: the value of the first header whose lower-cased name is
\* "message-id", None when there is none
get_message_id(msg) ==
    LET hits == {i \in 1..Len(msg.extra_headers) :
                    lower(msg.extra_headers[i][1]) = MessageIdKey}
    IN  IF hits = {} THEN None
        ELSE Some(msg.extra_headers[CHOOSE i \in hits : \A j \in hits : i <= j][2])

(* -------------------------- suppression list --------------------------- *)
\* iexact as a plain, case-sensitive lookup (to_address=address)
exact(a, b) == a = b

\* to_address__iexact: the database compares the two case-folded texts
iexact(a, b) == lower(a) = lower(b)

\* DontSendEntryManager.has_address over the rows of DontSendEntry
has_address(entries, address) == \E e \in entries : iexact(e, address)

RECURSIVE FilterLoop(_, _, _)
FilterLoop(entries, lst, retval) ==
    IF lst = <<>> THEN retval
    ELSE IF has_address(entries, Head(lst))
         THEN FilterLoop(entries, Tail(lst), retval)
         ELSE FilterLoop(entries, Tail(lst), Append(retval, Head(lst)))

\* filter_recipient_list: None for None, else the kept addresses in order
filter_recipient_list(entries, lst) ==
    IF IsNone(lst) THEN None ELSE Some(FilterLoop(entries, Val(lst), <<>>))

(* ------------------------------- state --------------------------------- *)
VARIABLES
    store,          \* the Message table: id -> row
    nextId,         \* the next BigAutoField value of the Message table
    logs,           \* the MessageLog table: id -> row
    nextLogId,      \* the next BigAutoField value of the MessageLog table
    dontSend,       \* the to_address values of the DontSendEntry table
    maxRetries,     \* settings.MAILER_EMAIL_MAX_RETRIES (None: not set, or None)
    logMessageData, \* settings.MAILER_EMAIL_LOG_MESSAGE_DATA (None: not set)
    now,            \* the clock read by datetime_now()
    obj,            \* per run: the Message instance it holds in memory, if any
    purgePc,        \* purge_deferred: "idle", or "counted" between count and delete
    purgeCount,     \* purge_deferred's local variable count
    purgeAlone,     \* no other operation ran since the last purge_deferred counted
    lastOp,         \* the operation that took the last step
    arg,            \* its arguments (the ones the model varies)
    ret,            \* what it returned, None if nothing
    err             \* the exception it raised, "" if none

vars == <<store, nextId, logs, nextLogId, dontSend, maxRetries, logMessageData,
          now, obj, purgePc, purgeCount, purgeAlone, lastOp, arg, ret, err>>

\* the arguments of an operation: a priority, a to list and a bcc list
Args(priority, to, bcc) == [priority |-> priority, to |-> to, bcc |-> bcc]
NoArgs == Args(None, None, None)
LogArgs(result_code, log_message) == [code |-> result_code, text |-> log_message]
CodecArgs(data) == [data |-> data]
PurgeArgs(days, result_codes) == [days |-> days, codes |-> result_codes]

\* what every operation but purge_deferred's own steps records
Done(op, a, rv, e) ==
    /\ lastOp' = op
    /\ arg' = a
    /\ ret' = rv
    /\ err' = e
    /\ purgeAlone' = FALSE

(* --------------------------- Message (model) --------------------------- *)
\* Message(**kwargs): a field takes its keyword argument when one is passed
\* (None included) and its default otherwise; priority is the only keyword
\* the callers modelled here pass. passed = FALSE: no priority keyword.
Message(passed, priority, t) ==
    [ id |-> None,
      message_data |-> EmptyText,
      when_added |-> t,
      priority |-> IF passed THEN priority ELSE Some(PRIORITY_MEDIUM),
      retry_count |-> 0 ]

\* the row an instance is written as
RowOf(m) ==
    [ message_data |-> m.message_data,
      when_added |-> m.when_added,
      priority |-> m.priority,
      retry_count |-> m.retry_count ]

\* the instance a row is read as
InstanceOf(s, i) ==
    [ id |-> Some(i),
      message_data |-> s[i].message_data,
      when_added |-> s[i].when_added,
      priority |-> s[i].priority,
      retry_count |-> s[i].retry_count ]

\* a table with no rows
Empty == [i \in {} |-> 0]

\* s with row i written (inserted or replaced)
Put(s, i, row) == [j \in (DOMAIN s) \cup {i} |-> IF j = i THEN row ELSE s[j]]

\* s without the rows in gone
Without(s, gone) == [j \in (DOMAIN s) \ gone |-> s[j]]

\* Message.email, Message.to_addresses, Message.subject: the email's list
\* and subject, [] and "" when the payload decodes to None
Message_email(m) == db_to_email(m.message_data)

Message_to_addresses(m) ==
    IF ~IsNone(Message_email(m)) THEN Some(Val(Message_email(m)).to) ELSE Some(<<>>)

Message_subject(m) ==
    IF ~IsNone(Message_email(m)) THEN Some(Val(Message_email(m)).subject) ELSE Some(<<>>)

(* --------------------------- MessageManager ---------------------------- *)
\* WHERE priority = p, and WHERE NOT (priority = p): a comparison with NULL
\* is neither true nor false, so a NULL priority is matched by neither
SqlEq(x, p) == ~IsNone(x) /\ Val(x) = p
SqlNotEq(x, p) == ~IsNone(x) /\ ~(Val(x) = p)

high_priority(s) == {i \in DOMAIN s : SqlEq(s[i].priority, PRIORITY_HIGH)}
medium_priority(s) == {i \in DOMAIN s : SqlEq(s[i].priority, PRIORITY_MEDIUM)}
low_priority(s) == {i \in DOMAIN s : SqlEq(s[i].priority, PRIORITY_LOW)}
non_deferred(s) == {i \in DOMAIN s : SqlNotEq(s[i].priority, PRIORITY_DEFERRED)}
deferred(s) == {i \in DOMAIN s : SqlEq(s[i].priority, PRIORITY_DEFERRED)}

\* the sequences a queryset with no order_by may be iterated as: neither the
\* manager's queries nor Message.Meta name an ordering, so the database
\* returns the matching rows in whatever order it reads them
QueryOrders(qs) ==
    {seq \in [1..Cardinality(qs) -> qs] :
        \A a, b \in 1..Cardinality(qs) : a # b => seq[a] # seq[b]}

\* retry_qs with the limit compared by <= (a message at the limit is retried)
retry_qs_lte(s, limit) ==
    IF ~IsNone(limit)
    THEN {i \in deferred(s) : s[i].retry_count <= Val(limit)}
    ELSE deferred(s)

\* retry_qs without the filter on retry_count
retry_qs_no_limit(s, limit) == deferred(s)

\* the rows retry_deferred's queryset matches
retry_qs(s, limit) ==
    IF ~IsNone(limit)
    THEN {i \in deferred(s) : s[i].retry_count < Val(limit)}
    ELSE deferred(s)

\* retry_update that leaves retry_count as it is
retry_update_keep_count(s, qs, new_priority) ==
    [i \in DOMAIN s |->
        IF i \in qs THEN [s[i] EXCEPT !.priority = Some(new_priority)] ELSE s[i]]

\* qs.update(priority=new_priority, retry_count=F("retry_count") + 1)
retry_update(s, qs, new_priority) ==
    [i \in DOMAIN s |->
        IF i \in qs
        THEN [s[i] EXCEPT !.priority = Some(new_priority), !.retry_count = @ + 1]
        ELSE s[i]]

(* --------------------------- message factory -------------------------- *)
\* make_message: filters to and bcc, builds the email, builds
\* Message(priority=priority) and sets its email; nothing is saved
make_message(entries, t, subject, to, bcc, headers, priority) ==
    LET to2 == filter_recipient_list(entries, to)
        bcc2 == filter_recipient_list(entries, bcc)
        core_msg == EmailMessage(subject, to2, bcc2, headers)
        db_msg == Message(TRUE, priority, t)
    IN  [db_msg EXCEPT !.message_data = email_to_db(core_msg)]

\* make_message that also saves what it made (Message.objects.create)
MakeMessageSaving(r, to, bcc, headers, priority) ==
    LET m == make_message(dontSend, now, <<"s">>, to, bcc, headers, priority)
    IN  /\ nextId <= MaxMsgs
        /\ store' = Put(store, nextId, RowOf(m))
        /\ nextId' = nextId + 1
        /\ obj' = [obj EXCEPT ![r] = Some([m EXCEPT !.id = Some(nextId)])]
        /\ Done("make_message", Args(priority, to, bcc), None, "")
        /\ UNCHANGED <<logs, nextLogId, dontSend, maxRetries, logMessageData,
                       now, purgePc, purgeCount>>

MakeMessage(r, to, bcc, headers, priority) ==
    /\ obj' = [obj EXCEPT ![r] =
                  Some(make_message(dontSend, now, <<"s">>, to, bcc, headers, priority))]
    /\ Done("make_message", Args(priority, to, bcc), None, "")
    /\ UNCHANGED <<store, nextId, logs, nextLogId, dontSend, maxRetries,
                   logMessageData, now, purgePc, purgeCount>>

\* filter_recipient_list called on its own
FilterRecipientList(lst) ==
    /\ Done("filter_recipient_list", Args(None, lst, None),
            filter_recipient_list(dontSend, lst), "")
    /\ UNCHANGED <<store, nextId, logs, nextLogId, dontSend, maxRetries,
                   logMessageData, now, obj, purgePc, purgeCount>>

\* db_to_email called on its own
DbToEmail(data) ==
    /\ Done("db_to_email", CodecArgs(data),
            try_db_to_email(data).val, try_db_to_email(data).exc)
    /\ UNCHANGED <<store, nextId, logs, nextLogId, dontSend, maxRetries,
                   logMessageData, now, obj, purgePc, purgeCount>>

\* a caller builds Message() itself, with no email and every default
NewMessage(r) ==
    /\ obj' = [obj EXCEPT ![r] = Some(Message(FALSE, None, now))]
    /\ Done("Message", NoArgs, None, "")
    /\ UNCHANGED <<store, nextId, logs, nextLogId, dontSend, maxRetries,
                   logMessageData, now, purgePc, purgeCount>>

(* ------------------------------ Model.save ----------------------------- *)
\* save with priority a nullable column: a None priority is stored as NULL
save_nullable(r, m, op) ==
    IF IsNone(m.id)
    THEN /\ nextId <= MaxMsgs
         /\ store' = Put(store, nextId, RowOf(m))
         /\ nextId' = nextId + 1
         /\ obj' = [obj EXCEPT ![r] = None]
         /\ Done(op, NoArgs, None, "")
    ELSE /\ store' = Put(store, Val(m.id), RowOf(m))
         /\ obj' = [obj EXCEPT ![r] = None]
         /\ Done(op, NoArgs, None, "")
         /\ UNCHANGED nextId

\* Message.save() of instance m of run r: priority is a NOT NULL column, so a
\* None priority raises IntegrityError and writes nothing; an instance with no
\* primary key is inserted under the next one; an instance with a primary key
\* is updated in place, and inserted under that key when no row has it.
\* The run is then done with the instance.
save(r, m, op) ==
    IF IsNone(m.priority)
    THEN /\ obj' = [obj EXCEPT ![r] = None]
         /\ Done(op, NoArgs, None, "IntegrityError")
         /\ UNCHANGED <<store, nextId>>
    ELSE IF IsNone(m.id)
    THEN /\ nextId <= MaxMsgs
         /\ store' = Put(store, nextId, RowOf(m))
         /\ nextId' = nextId + 1
         /\ obj' = [obj EXCEPT ![r] = None]
         /\ Done(op, NoArgs, None, "")
    ELSE /\ store' = Put(store, Val(m.id), RowOf(m))
         /\ obj' = [obj EXCEPT ![r] = None]
         /\ Done(op, NoArgs, None, "")
         /\ UNCHANGED nextId

\* the caller's save() of the instance it holds
Save(r) ==
    /\ ~IsNone(obj[r])
    /\ save(r, Val(obj[r]), "save")
    /\ UNCHANGED <<logs, nextLogId, dontSend, maxRetries, logMessageData, now,
                   purgePc, purgeCount>>

\* Message.defer: self.priority = PRIORITY_DEFERRED; self.save()
Defer(r) ==
    /\ ~IsNone(obj[r])
    /\ save(r, [Val(obj[r]) EXCEPT !.priority = Some(PRIORITY_DEFERRED)], "defer")
    /\ UNCHANGED <<logs, nextLogId, dontSend, maxRetries, logMessageData, now,
                   purgePc, purgeCount>>

(* --------------------------- the delivery run -------------------------- *)
\* a run takes a message out of one of the manager's queries
Load(r, i) ==
    /\ i \in DOMAIN store
    /\ obj' = [obj EXCEPT ![r] = Some(InstanceOf(store, i))]
    /\ Done("load", NoArgs, None, "")
    /\ UNCHANGED <<store, nextId, logs, nextLogId, dontSend, maxRetries,
                   logMessageData, now, purgePc, purgeCount>>

\* message.delete(): deletes the row with the instance's key, if there is
\* one; the run is then done with the instance
Delete(r) ==
    /\ ~IsNone(obj[r])
    /\ ~IsNone(Val(obj[r]).id)
    /\ store' = Without(store, {Val(Val(obj[r]).id)})
    /\ obj' = [obj EXCEPT ![r] = None]
    /\ Done("delete", NoArgs, None, "")
    /\ UNCHANGED <<nextId, logs, nextLogId, dontSend, maxRetries,
                   logMessageData, now, purgePc, purgeCount>>

\* another delivery run sends message i and deletes it, start to end, while
\* this one holds its instance
DeleteRow(i) ==
    /\ ~IsNone(obj[Run])
    /\ Val(obj[Run]).id = Some(i)
    /\ i \in DOMAIN store
    /\ store' = Without(store, {i})
    /\ Done("delete", NoArgs, None, "")
    /\ UNCHANGED <<nextId, logs, nextLogId, dontSend, maxRetries,
                   logMessageData, now, obj, purgePc, purgeCount>>

\* another delivery run takes message i from non_deferred(), fails to send
\* it and defers it, start to end, while this one holds its instance
DeferRow(i) ==
    /\ ~IsNone(obj[Run])
    /\ Val(obj[Run]).id = Some(i)
    /\ i \in non_deferred(store)
    /\ store' = Put(store, i, [store[i] EXCEPT !.priority = Some(PRIORITY_DEFERRED)])
    /\ Done("defer", NoArgs, None, "")
    /\ UNCHANGED <<nextId, logs, nextLogId, dontSend, maxRetries,
                   logMessageData, now, obj, purgePc, purgeCount>>

(* ----------------------- retry_deferred, purge_deferred ---------------- *)
\* MessageManager.retry_deferred(new_priority): one UPDATE statement
RetryDeferred(new_priority) ==
    /\ LET qs == retry_qs(store, maxRetries)
       IN  /\ \A i \in qs : store[i].retry_count < RetryCap
           /\ store' = retry_update(store, qs, new_priority)
           /\ Done("retry_deferred", Args(Some(new_priority), None, None), Some(Cardinality(qs)), "")
    /\ UNCHANGED <<nextId, logs, nextLogId, dontSend, maxRetries,
                   logMessageData, now, obj, purgePc, purgeCount>>

\* purge_deferred, first statement: count = qs.count()
PurgeCount ==
    /\ purgePc = "idle"
    /\ purgePc' = "counted"
    /\ purgeCount' = Cardinality(deferred(store))
    /\ purgeAlone' = TRUE
    /\ lastOp' = "purge_deferred.count"
    /\ arg' = NoArgs
    /\ ret' = None
    /\ err' = ""
    /\ UNCHANGED <<store, nextId, logs, nextLogId, dontSend, maxRetries,
                   logMessageData, now, obj>>

\* purge_delete sparing the deferred messages that were never retried
purge_delete_retried(s) == Without(s, {i \in deferred(s) : s[i].retry_count > 0})

\* the rows qs.delete() leaves: the queryset is evaluated again
purge_delete(s) == Without(s, deferred(s))

\* purge_deferred, the rest: qs.delete(); return count (Command.handle
\* reports the count)
PurgeDelete ==
    /\ purgePc = "counted"
    /\ store' = purge_delete(store)
    /\ purgePc' = "idle"
    /\ purgeCount' = 0
    /\ lastOp' = "purge_deferred"
    /\ arg' = NoArgs
    /\ ret' = Some(purgeCount)
    /\ err' = ""
    /\ UNCHANGED <<nextId, logs, nextLogId, dontSend, maxRetries,
                   logMessageData, now, obj, purgeAlone>>

(* --------------------------- MessageLogManager ------------------------- *)
\* the row MessageLogManager.log creates for message m
log_row(m, flag, t, result_code, log_message) ==
    LET log_message_data == IF IsNone(flag) THEN TRUE ELSE Val(flag)
    IN  [ message_data |-> IF log_message_data THEN Some(m.message_data) ELSE None,
          message_id |-> get_message_id(Val(db_to_email(m.message_data))),
          when_added |-> m.when_added,
          priority |-> m.priority,
          when_attempted |-> t,
          result |-> result_code,
          log_message |-> log_message ]

\* MessageLog.email, MessageLog.to_addresses, MessageLog.subject: a NULL
\* message_data decodes to None (TypeError is caught in both decodings);
\* the two accessors return None when the email is None
MessageLog_email(l) ==
    IF IsNone(l.message_data) THEN None ELSE db_to_email(Val(l.message_data))

MessageLog_to_addresses(l) ==
    IF ~IsNone(MessageLog_email(l)) THEN Some(Val(MessageLog_email(l)).to) ELSE None

MessageLog_subject(l) ==
    IF ~IsNone(MessageLog_email(l)) THEN Some(Val(MessageLog_email(l)).subject) ELSE None

\* log keeping one entry only: the new row replaces the rows there are
LogLatestOnly(r, result_code, log_message) ==
    /\ ~IsNone(obj[r])
    /\ ~IsNone(db_to_email(Val(obj[r]).message_data))
    /\ ~IsNone(Val(obj[r]).priority)
    /\ nextLogId <= MaxLogs
    /\ logs' = Put(Empty, nextLogId,
                   log_row(Val(obj[r]), logMessageData, now, result_code, log_message))
    /\ nextLogId' = nextLogId + 1
    /\ Done("log", LogArgs(result_code, log_message), Some(nextLogId), "")
    /\ UNCHANGED <<store, nextId, dontSend, maxRetries, logMessageData, now,
                   obj, purgePc, purgeCount>>

\* MessageLogManager.log(message, result_code, log_message): message.email is
\* None for an unreadable payload and get_message_id then raises
\* AttributeError; MessageLog.priority is a NOT NULL column
Log(r, result_code, log_message) ==
    /\ ~IsNone(obj[r])
    /\ LET m == Val(obj[r])
       IN  IF IsNone(db_to_email(m.message_data))
           THEN /\ Done("log", LogArgs(result_code, log_message), None, "AttributeError")
                /\ UNCHANGED <<logs, nextLogId>>
           ELSE IF IsNone(m.priority)
           THEN /\ Done("log", LogArgs(result_code, log_message), None, "IntegrityError")
                /\ UNCHANGED <<logs, nextLogId>>
           ELSE /\ nextLogId <= MaxLogs
                /\ logs' = Put(logs, nextLogId,
                               log_row(m, logMessageData, now, result_code, log_message))
                /\ nextLogId' = nextLogId + 1
                /\ Done("log", LogArgs(result_code, log_message), Some(nextLogId), "")
    /\ UNCHANGED <<store, nextId, dontSend, maxRetries, logMessageData, now,
                   obj, purgePc, purgeCount>>

\* purge_query with every result code as the default
purge_query_all_codes(l, t, days, result_codes) ==
    LET codes == IF IsNone(result_codes) THEN RESULT_CODES ELSE Val(result_codes)
        limit == t - days
    IN  {i \in DOMAIN l : l[i].when_attempted < limit /\ l[i].result \in codes}

\* the rows purge_old_entries's query matches
purge_query(l, t, days, result_codes) ==
    LET codes == IF IsNone(result_codes) THEN {RESULT_SUCCESS} ELSE Val(result_codes)
        limit == t - days
    IN  {i \in DOMAIN l : l[i].when_attempted < limit /\ l[i].result \in codes}

\* MessageLogManager.purge_old_entries(days, result_codes)
PurgeOldEntries(days, result_codes) ==
    /\ LET query == purge_query(logs, now, days, result_codes)
       IN  /\ logs' = Without(logs, query)
           /\ Done("purge_old_entries", PurgeArgs(days, result_codes),
                   Some(Cardinality(query)), "")
    /\ UNCHANGED <<store, nextId, nextLogId, dontSend, maxRetries,
                   logMessageData, now, obj, purgePc, purgeCount>>

\* time passes
Tick ==
    /\ now < MaxTime
    /\ now' = now + 1
    /\ Done("tick", NoArgs, None, "")
    /\ UNCHANGED <<store, nextId, logs, nextLogId, dontSend, maxRetries,
                   logMessageData, obj, purgePc, purgeCount>>

(* --------------------------- specifications ---------------------------- *)
ActiveTiers == {PRIORITY_HIGH, PRIORITY_MEDIUM, PRIORITY_LOW}

InitCommon ==
    /\ store = Empty
    /\ nextId = 1
    /\ logs = Empty
    /\ nextLogId = 1
    /\ now = 0
    /\ obj = [r \in Runs |-> None]
    /\ purgePc = "idle"
    /\ purgeCount = 0
    /\ purgeAlone = FALSE
    /\ lastOp = "init"
    /\ arg = NoArgs
    /\ ret = None
    /\ err = ""

\* the values MAILER_EMAIL_MAX_RETRIES is configured with
RetryLimits == {None, Some(0), Some(1)}

\* the queue's life: producers, delivery runs and the maintenance commands
\* work on the Message table; the retry limit varies
Init ==
    /\ InitCommon
    /\ dontSend = {AddrAUp}
    /\ maxRetries \in RetryLimits
    /\ logMessageData = None

QueueTo == Some(<<AddrA, AddrB>>)
QueueHeaders == Some(<< <<HdrMixed, MsgIdValue>> >>)

Next ==
    \/ \E p \in {None, Some(PRIORITY_MEDIUM)} :
          MakeMessage(App, QueueTo, None, QueueHeaders, p)
    \/ Save(App)
    \/ \E i \in 1..MaxMsgs : Load(Run, i)
    \/ Defer(Run)
    \/ Delete(Run)
    \/ \E i \in 1..MaxMsgs : DeleteRow(i)
    \/ \E i \in 1..MaxMsgs : DeferRow(i)
    \/ \E p \in {PRIORITY_MEDIUM, PRIORITY_HIGH} : RetryDeferred(p)
    \/ PurgeCount
    \/ PurgeDelete

Spec == Init /\ [][Next]_vars

\* the factory: recipient lists, suppression lists and priorities vary
DontSendChoices == {{}, {AddrAUp}, {AddrA, AddrB}}

RecipientLists ==
    {None} \cup {Some(l) : l \in UNION {[1..n -> Addresses] : n \in 0..MaxRecipients}}

FactoryTo == {None, Some(<<>>), Some(<<AddrBMixed, AddrA, AddrBMixed>>)}
FactoryBcc == {None, Some(<<AddrAUp, AddrB>>)}
FactoryPriorities == {None, Some(PRIORITY_LOW), Some(PRIORITY_DEFERRED)}

InitFactory ==
    /\ InitCommon
    /\ dontSend \in DontSendChoices
    /\ maxRetries = None
    /\ logMessageData = None

\* the texts db_to_email is given: "", malformed texts, and the payload of
\* the message the factory made, in the current and in the legacy encoding
PayloadTexts(held) ==
    {EmptyText} \cup MalformedTexts
    \cup (IF IsNone(held) THEN {}
          ELSE {Val(held).message_data,
                legacy_to_db(Val(db_to_email(Val(held).message_data)))})

NextFactory ==
    \/ \E lst \in RecipientLists : FilterRecipientList(lst)
    \/ \E to \in FactoryTo, bcc \in FactoryBcc, p \in FactoryPriorities :
          MakeMessage(App, to, bcc, None, p)
    \/ \E data \in PayloadTexts(obj[App]) : DbToEmail(data)

SpecFactory == InitFactory /\ [][NextFactory]_vars

\* the delivery log: one run takes one message through the queue, one
\* instance at a time, logs its delivery attempts and purges old entries,
\* and runs each maintenance command from start to end;
\* the log-payload flag varies and time passes between two instances
InitLog ==
    /\ InitCommon
    /\ dontSend = {AddrAUp}
    /\ maxRetries = Some(1)
    /\ logMessageData \in {None, Some(FALSE)}

NextLog ==
    \/ /\ purgePc = "idle" /\ IsNone(obj[Run])
       /\ MakeMessage(Run, QueueTo, None, QueueHeaders, Some(PRIORITY_MEDIUM))
    \/ (purgePc = "idle" /\ IsNone(obj[Run]) /\ NewMessage(Run))
    \/ (purgePc = "idle" /\ nextId = 1 /\ Save(Run))
    \/ (purgePc = "idle" /\ IsNone(obj[Run]) /\ Load(Run, 1))
    \/ /\ purgePc = "idle" /\ ~IsNone(obj[Run]) /\ ~IsNone(Val(obj[Run]).id)
       /\ Defer(Run)
    \/ (purgePc = "idle" /\ Delete(Run))
    \/ (purgePc = "idle" /\ RetryDeferred(PRIORITY_MEDIUM))
    \/ PurgeCount
    \/ PurgeDelete
    \/ \E c \in {RESULT_SUCCESS, RESULT_FAILURE} :
          purgePc = "idle" /\ Log(Run, c, <<>>)
    \/ \E d \in {0, MaxTime}, cs \in {None, Some({RESULT_FAILURE})} :
          purgePc = "idle" /\ PurgeOldEntries(d, cs)
    \/ (purgePc = "idle" /\ IsNone(obj[Run]) /\ Tick)

SpecLog == InitLog /\ [][NextLog]_vars

\* the maintenance commands on their own: the queue holds messages that
\* were saved and, some of them, deferred, none retried yet; retry_deferred
\* and purge_deferred calls overlap in every way
QueuedRow(priority) ==
    RowOf([make_message({}, 0, <<"s">>, QueueTo, None, QueueHeaders, Some(priority))
              EXCEPT !.id = None])

QueuedStores ==
    UNION {[1..n -> {QueuedRow(p) : p \in {PRIORITY_HIGH, PRIORITY_DEFERRED}}] :
              n \in 0..MaxMsgs}

InitRetry ==
    /\ store \in QueuedStores
    /\ nextId = Len(store) + 1
    /\ logs = Empty
    /\ nextLogId = 1
    /\ dontSend = {}
    /\ maxRetries \in RetryLimits
    /\ logMessageData = None
    /\ now = 0
    /\ obj = [r \in Runs |-> None]
    /\ purgePc = "idle"
    /\ purgeCount = 0
    /\ purgeAlone = FALSE
    /\ lastOp = "init"
    /\ arg = NoArgs
    /\ ret = None
    /\ err = ""

NextRetry ==
    \/ \E p \in {PRIORITY_MEDIUM, PRIORITY_LOW} : RetryDeferred(p)
    \/ PurgeCount
    \/ PurgeDelete

SpecRetry == InitRetry /\ [][NextRetry]_vars

(* ------------------------------ properties ---------------------------- *)
IsDeferredRow(s, i) == s[i].priority = Some(PRIORITY_DEFERRED)

\* C1: a retry_deferred(target) step moves every deferred message whose
\* retry_count is below the configured maximum (every deferred message when
\* no maximum is configured) to priority target with retry_count one higher,
\* leaves a deferred message at or above the maximum as it was, and returns
\* the number of messages it changed.
C1_RetryDeferred ==
    [][lastOp' = "retry_deferred" =>
        /\ DOMAIN store' = DOMAIN store
        /\ \A i \in DOMAIN store :
              IsDeferredRow(store, i) =>
                IF IsNone(maxRetries) \/ store[i].retry_count < Val(maxRetries)
                THEN /\ store'[i].priority = arg'.priority
                     /\ store'[i].retry_count = store[i].retry_count + 1
                ELSE store'[i] = store[i]
        /\ ret' = Some(Cardinality({i \in DOMAIN store : store'[i] # store[i]}))
    ]_vars

\* retry_deferred has just retried one message and left another, at the
\* maximum, deferred
C1_Witness ==
    /\ lastOp = "retry_deferred"
    /\ ret = Some(1)
    /\ ~IsNone(maxRetries)
    /\ \E i, j \in DOMAIN store :
          /\ IsDeferredRow(store, i)
          /\ store[i].retry_count >= Val(maxRetries)
          /\ store[j].priority = arg.priority
          /\ store[j].retry_count = 1

\* C2: a purge_deferred during which no other operation ran removes exactly
\* the messages that were deferred, returns their number, and leaves every
\* other message in the store unchanged.
C2_PurgeDeferredAlone ==
    [][(lastOp' = "purge_deferred" /\ purgeAlone) =>
        /\ DOMAIN store' = {i \in DOMAIN store : ~IsDeferredRow(store, i)}
        /\ \A i \in DOMAIN store' : store'[i] = store[i]
        /\ ret' = Some(Cardinality({i \in DOMAIN store : IsDeferredRow(store, i)}))
    ]_vars

\* an undisturbed purge_deferred has removed a deferred message and left
\* another message in the store
C2_Witness ==
    /\ lastOp = "purge_deferred"
    /\ purgeAlone
    /\ ret = Some(1)
    /\ DOMAIN store # {}

\* C3: the count purge_deferred returns is never smaller than the number of
\* messages it deleted.
C3_NeverUndercounts ==
    [][lastOp' = "purge_deferred" =>
        Val(ret') >= Cardinality(DOMAIN store) - Cardinality(DOMAIN store')
    ]_vars

\* C4: defer() on an instance whose row another run has deleted raises
\* nothing and leaves the store as it was.
C4_DeferOfDeletedIsNoOp ==
    [][(/\ lastOp' = "defer"
        /\ IsNone(obj'[Run])
        /\ ~IsNone(obj[Run])
        /\ ~IsNone(Val(obj[Run]).id)
        /\ Val(Val(obj[Run]).id) \notin DOMAIN store) =>
        (store' = store /\ err' = "")
    ]_vars

\* C5: every stored message is returned by exactly one of non_deferred() and
\* deferred(), by deferred() exactly when its priority is deferred.
C5_Partition ==
    /\ non_deferred(store) \cup deferred(store) = DOMAIN store
    /\ non_deferred(store) \cap deferred(store) = {}
    /\ \A i \in DOMAIN store : i \in deferred(store) <=> IsDeferredRow(store, i)

\* the store holds a deferred message and one that is not, after a message
\* made with the factory's default arguments was given to save()
C5_Witness ==
    /\ \E i, j \in DOMAIN store :
          IsDeferredRow(store, i) /\ ~IsDeferredRow(store, j)
    /\ lastOp = "save"
    /\ err = "IntegrityError"

\* C6: make_message returns a Message whose priority is the one passed, or
\* medium when none was passed, and whose retry_count is 0.
C6_FactoryPriority ==
    lastOp = "make_message" =>
        /\ Val(obj[App]).priority =
              (IF IsNone(arg.priority) THEN Some(PRIORITY_MEDIUM) ELSE arg.priority)
        /\ Val(obj[App]).retry_count = 0

\* C7: a make_message step changes no table (Message, MessageLog,
\* DontSendEntry): the message it made is stored, under a new key, only by a
\* later save step.
C7_FactoryDoesNotPersist ==
    [][/\ lastOp' = "make_message" =>
            (store' = store /\ nextId' = nextId /\ logs' = logs /\ dontSend' = dontSend)
       /\ nextId' # nextId => lastOp' = "save"
    ]_vars

\* make_message has returned an unsaved message while the store holds
\* messages saved before
C7_Witness ==
    /\ lastOp = "make_message"
    /\ DOMAIN store # {}
    /\ ~IsNone(obj[App])
    /\ IsNone(Val(obj[App]).id)
    /\ \A i \in DOMAIN store : store[i].when_added = 0 /\ i < nextId

\* address a matches a suppression entry, letter case aside
Suppressed(a) ==
    \E e \in dontSend :
        /\ Len(e) = Len(a)
        /\ \A k \in 1..Len(a) : LowerChar(e[k]) = LowerChar(a[k])

NotSuppressed(a) == ~Suppressed(a)

\* the addresses of lst that are not suppressed, in order, duplicates kept
Kept(lst) == SelectSeq(lst, NotSuppressed)

\* C8: filter_recipient_list returns None for None and, for a list, exactly
\* its addresses that match no suppression entry case-insensitively, in
\* order and with duplicates; make_message gives the email the filtered to
\* and the filtered bcc, so neither holds a suppressed address.
C8_FilterRecipients ==
    /\ lastOp = "filter_recipient_list" =>
          ret = (IF IsNone(arg.to) THEN None ELSE Some(Kept(Val(arg.to))))
    /\ lastOp = "make_message" =>
          LET email == Val(db_to_email(Val(obj[App]).message_data))
          IN  /\ email.to = (IF IsNone(arg.to) THEN <<>> ELSE Kept(Val(arg.to)))
              /\ email.bcc = (IF IsNone(arg.bcc) THEN <<>> ELSE Kept(Val(arg.bcc)))
              /\ \A k \in 1..Len(email.to) : ~Suppressed(email.to[k])
              /\ \A k \in 1..Len(email.bcc) : ~Suppressed(email.bcc[k])

\* make_message has dropped an address that differs from its suppression
\* entry in letter case only, from to and from bcc, and kept a duplicate
C8_Witness ==
    /\ lastOp = "make_message"
    /\ dontSend = {AddrAUp}
    /\ arg.to = Some(<<AddrBMixed, AddrA, AddrBMixed>>)
    /\ arg.bcc = Some(<<AddrAUp, AddrB>>)
    /\ Val(db_to_email(Val(obj[App]).message_data)).to = <<AddrBMixed, AddrBMixed>>
    /\ Val(db_to_email(Val(obj[App]).message_data)).bcc = <<AddrB>>

\* C9: a log(message, result_code, log_message) step adds exactly one entry,
\* with the message's when_added and priority and with result result_code,
\* whose payload is the message's when the log-payload flag is on (or not
\* set) and null when it is off; it changes no stored message.
C9_LogSnapshot ==
    [][lastOp' = "log" =>
        LET m == Val(obj[Run])
            new == DOMAIN logs' \ DOMAIN logs
            on == IF IsNone(logMessageData) THEN TRUE ELSE Val(logMessageData)
        IN  /\ Cardinality(new) = 1
            /\ \A i \in DOMAIN logs : i \in DOMAIN logs' /\ logs'[i] = logs[i]
            /\ \A i \in new :
                  /\ logs'[i].when_added = m.when_added
                  /\ logs'[i].priority = m.priority
                  /\ logs'[i].result = arg'.code
                  /\ logs'[i].message_data = (IF on THEN Some(m.message_data) ELSE None)
            /\ store' = store
    ]_vars

\* C10: no step changes an existing log entry, and no step other than
\* purge_old_entries removes one: an entry outlives the defer, retry, purge
\* and deletion of its message and later log calls.
C10_LogEntriesImmutable ==
    [][/\ \A i \in DOMAIN logs \cap DOMAIN logs' : logs'[i] = logs[i]
       /\ lastOp' # "purge_old_entries" => DOMAIN logs \subseteq DOMAIN logs'
    ]_vars

\* the message has just been deleted, the store is empty, and the two log
\* entries of its delivery attempts, one taken while it was deferred, remain
C10_Witness ==
    /\ lastOp = "delete"
    /\ DOMAIN store = {}
    /\ Cardinality(DOMAIN logs) = 2
    /\ \E i \in DOMAIN logs : logs[i].priority = Some(PRIORITY_DEFERRED)

\* C11: a purge_old_entries(days, result_codes) step deletes exactly the log
\* entries attempted earlier than now - days whose result is in result_codes
\* (success only when result_codes is not given), leaves every other entry
\* as it was, and returns the number it deleted.
C11_PurgeOldEntries ==
    [][lastOp' = "purge_old_entries" =>
        LET codes == IF IsNone(arg'.codes) THEN {RESULT_SUCCESS} ELSE Val(arg'.codes)
            old(i) == logs[i].when_attempted < now - arg'.days
            gone == {i \in DOMAIN logs : old(i) /\ logs[i].result \in codes}
        IN  /\ DOMAIN logs' = DOMAIN logs \ gone
            /\ \A i \in DOMAIN logs' : logs'[i] = logs[i]
            /\ ret' = Some(Cardinality(gone))
            /\ IsNone(arg'.codes) =>
                  \A i \in DOMAIN logs :
                      logs[i].result # RESULT_SUCCESS => i \in DOMAIN logs'
            /\ \A i \in DOMAIN logs : ~old(i) => i \in DOMAIN logs'
    ]_vars

\* purge_old_entries with the default result codes has deleted the old
\* success entry and kept the failure entry of the same age
C11_Witness ==
    /\ lastOp = "purge_old_entries"
    /\ IsNone(arg.codes)
    /\ ret = Some(1)
    /\ \E i \in DOMAIN logs :
          /\ logs[i].result = RESULT_FAILURE
          /\ logs[i].when_attempted < now - arg.days

\* C12: db_to_email never raises: it returns None for "" and for every text
\* on which the primary and the fallback decoding both fail, whatever the
\* failure, and the email for a text either decoding reads.
C12_DecodeNeverRaises ==
    lastOp = "db_to_email" =>
        /\ err = ""
        /\ (arg.data = EmptyText \/ arg.data \in MalformedTexts) => ret = None

\* C13: a payload that decodes to None makes nothing raise: the recipients of
\* such a Message or MessageLog are the empty list and its subject the blank
\* string, and a log step on such a message raises nothing and adds an entry
\* whose message_id is null.
C13_UnreadablePayloadDegrades ==
    [][/\ \A i \in DOMAIN logs' :
             IsNone(MessageLog_email(logs'[i])) =>
                 /\ MessageLog_to_addresses(logs'[i]) = Some(<<>>)
                 /\ MessageLog_subject(logs'[i]) = Some(<<>>)
       /\ (~IsNone(obj'[Run]) /\ IsNone(Message_email(Val(obj'[Run])))) =>
             /\ Message_to_addresses(Val(obj'[Run])) = Some(<<>>)
             /\ Message_subject(Val(obj'[Run])) = Some(<<>>)
       /\ (lastOp' = "log" /\ IsNone(Message_email(Val(obj[Run])))) =>
             /\ err' = ""
             /\ \E i \in DOMAIN logs' \ DOMAIN logs : IsNone(logs'[i].message_id)
    ]_vars

\* C14: a message that is deferred with retry_count at or above the
\* configured maximum stays as it is: after every step it is still stored,
\* deferred and with the same retry_count, unless that step is a
\* purge_deferred or a delete that removed it.
C14_AtLimitStaysDeferred ==
    [][\A i \in DOMAIN store :
          (/\ ~IsNone(maxRetries)
           /\ IsDeferredRow(store, i)
           /\ store[i].retry_count >= Val(maxRetries)) =>
              IF i \in DOMAIN store'
              THEN /\ IsDeferredRow(store', i)
                   /\ store'[i].retry_count = store[i].retry_count
              ELSE lastOp' \in {"purge_deferred", "delete"}
    ]_vars

IsActiveRow(s, i) == ~IsNone(s[i].priority) /\ Val(s[i].priority) \in ActiveTiers

\* C15: in every step, a stored message goes from an active tier to deferred
\* only if the step is a defer, and from deferred to an active tier only if
\* the step is a retry_deferred, which then raises its retry_count by
\* exactly 1.
C15_TransitionsOnlyByDeferAndRetry ==
    [][\A i \in DOMAIN store \cap DOMAIN store' :
          /\ (IsActiveRow(store, i) /\ IsDeferredRow(store', i)) =>
                lastOp' = "defer"
          /\ (IsDeferredRow(store, i) /\ IsActiveRow(store', i)) =>
                /\ lastOp' = "retry_deferred"
                /\ store'[i].retry_count = store[i].retry_count + 1
    ]_vars

\* a message that was deferred and retried has been deferred again, next to
\* a message in an active tier
C15_Witness ==
    /\ lastOp = "defer"
    /\ \E i, j \in DOMAIN store :
          /\ IsDeferredRow(store, i)
          /\ store[i].retry_count = 1
          /\ IsActiveRow(store, j)

\* C16: each of high_priority(), medium_priority(), low_priority(),
\* non_deferred() and deferred() yields its messages ordered by priority:
\* no message comes before one of a higher priority (a smaller number).
C16_QueriesOrderedByPriority ==
    \A qs \in {high_priority(store), medium_priority(store), low_priority(store),
               non_deferred(store), deferred(store)} :
        \A seq \in QueryOrders(qs) :
            \A a, b \in 1..Len(seq) :
                a < b => Val(store[seq[a]].priority) <= Val(store[seq[b]].priority)

\* C17: when retry_deferred and purge_deferred calls overlap on a queue whose
\* messages were never retried, no message has its retry_count raised twice,
\* and every call returns the number of messages it changed: retry_deferred
\* the number it moved, purge_deferred the number it deleted.
C17_NoLostOrDoubledUpdate ==
    [][/\ \A i \in DOMAIN store' : store'[i].retry_count <= 1
       /\ lastOp' = "retry_deferred" =>
             ret' = Some(Cardinality({i \in DOMAIN store : store'[i] # store[i]}))
       /\ lastOp' = "purge_deferred" =>
             ret' = Some(Cardinality(DOMAIN store) - Cardinality(DOMAIN store'))
    ]_vars

\* C18: no step lowers the retry_count stored for a message, and a defer step
\* changes nothing of a stored message but its priority.
C18_RetryCountNeverDecreases ==
    [][\A i \in DOMAIN store \cap DOMAIN store' :
          /\ store'[i].retry_count >= store[i].retry_count
          /\ lastOp' = "defer" =>
                /\ store'[i].retry_count = store[i].retry_count
                /\ store'[i].message_data = store[i].message_data
                /\ store'[i].when_added = store[i].when_added
    ]_vars

\* C19: with a maximum retry count M configured, every stored message has
\* 0 <= retry_count <= M in every reachable state.
C19_RetryCountWithinLimit ==
    ~IsNone(maxRetries) =>
        \A i \in DOMAIN store :
            0 <= store[i].retry_count /\ store[i].retry_count <= Val(maxRetries)

\* with M = 1, a retry_deferred call has just left a deferred message whose
\* retry_count is 1 where it was, and moved nothing
C19_Witness ==
    /\ maxRetries = Some(1)
    /\ lastOp = "retry_deferred"
    /\ ret = Some(0)
    /\ \E i \in DOMAIN store :
          IsDeferredRow(store, i) /\ store[i].retry_count = 1

====
